---- MODULE Spec2Model ----
(***************************************************************************)
(* Model of the recommendation agent: the profile model                    *)
(* (models/user_profile.py), the speculative matching tool                 *)
(* (tools/guessed_matching_mcp.py) with its thread pool, and the request   *)
(* handling of api.py over the single global agent                         *)
(* (recommendation_agent_mcp.py, core/mcp_agent.py).                       *)
(*                                                                         *)
(* Python values are tagged pairs so that Python's cross-type == can be    *)
(* evaluated:  <<"s", str>>  <<"n", number>>  <<"none", 0>>                *)
(*             <<"l", address>>   a list object living in the heap         *)
(*             <<"L", contents>>  a list serialised into a request body    *)
(* Non-ASCII literals of the source are transliterated:                    *)
(*   '美国' "US", '英国' "UK", '加拿大' "CA", '新加坡' "SG", '香港' "HK",  *)
(*   '双非' "other", '硕士' "master".                                      *)
(***************************************************************************)
EXTENDS Integers, Sequences, FiniteSets, TLC

VARIABLES
    heap,            \* list objects: address (index) -> contents
    user_profile,    \* the session's UserProfile (context.session_data['user_profile']), or NoProfile
    pc,              \* position of GuessedMatchingMCP.run
    missing_fields,  \* run(): missing_fields local
    completeness,    \* run(): completeness local
    guess_combinations, \* run(): guess_combinations local
    tasks_data,      \* _parallel_api_calls_with_threads: tasks_data local
    max_workers,     \* _parallel_api_calls_with_threads: max_workers local
    svc,             \* what the external service answers to the call of each task
    fut,             \* state of each submitted future
    calls,           \* number of external calls issued for each task
    cursor,          \* number of futures the collecting loop has gone through
    timeouts,        \* the futures whose future.result(timeout=35) timed out
    all_results,     \* _parallel_api_calls_with_threads: all_results local
    failed_calls,    \* _parallel_api_calls_with_threads: failed_calls local
    response,        \* the MCPResponse returned by run, or NoResponse
    earlier_runs,    \* the status each earlier run() on this tool instance returned
    profile_before,  \* snapshot of the profile and its lists taken when run() or upgradeProfile starts
    sessions,        \* api.py: sessions, session key -> context
    agent_context,   \* MCPAgent.context of the global agent_instance
    req,             \* the in-flight /recommendation requests
    turns,           \* the /recommendation requests served one after the other, with the context each got
    touched,         \* for each request, the session keys whose context its steps used
    tool,            \* the matching tool whose run() is called (_perform_matching)
    exact_pc,        \* position of CertainMatchingMCP.run
    exact_requests,  \* the requests CertainMatchingMCP.run has posted, in order
    exact_svc,       \* what the external service answers to the two queries
    exact_response,  \* the MCPResponse returned by CertainMatchingMCP.run, or NoResponse
    patch,           \* the payload last handed to upgradeProfile
    updated_fields,  \* what that call returned
    raised,          \* whether that call raised
    n_updates,       \* number of upgradeProfile calls so far
    reapplied,       \* whether that call was handed the payload of the call before it
    turn_pc,         \* position of RecommendationAgentMCP.run in the turn being processed
    upd_response,    \* status of the MCPResponse ProfileUpdaterMCP.run returned in this turn
    match_response   \* status of the MCPResponse _perform_matching returned in this turn

vars == << heap, user_profile, pc, missing_fields, completeness, guess_combinations,
           tasks_data, max_workers, svc, fut, calls, cursor, timeouts, all_results,
           failed_calls, response, earlier_runs, profile_before, sessions, agent_context, req, touched,
           turns,
           tool, exact_pc, exact_requests, exact_svc, exact_response,
           patch, updated_fields, raised, n_updates, reapplied,
           turn_pc, upd_response, match_response >>

runVars == << heap, user_profile, pc, missing_fields, completeness, guess_combinations,
              tasks_data, max_workers, svc, fut, calls, cursor, timeouts, all_results,
              failed_calls, response, earlier_runs, profile_before >>

agentVars == << sessions, agent_context, req, touched, turns >>

exactVars == << tool, exact_pc, exact_requests, exact_svc, exact_response >>

updVars == << patch, updated_fields, raised, n_updates, reapplied,
              turn_pc, upd_response, match_response >>

(***************************************************************************)
(* Values                                                                  *)
(***************************************************************************)
Str(s) == <<"s", s>>
Num(n) == <<"n", n>>
None == <<"none", 0>>
Ref(a) == <<"l", a>>
Lit(q) == <<"L", q>>

IsStr(v) == v[1] = "s"
IsNum(v) == v[1] = "n"
IsRef(v) == v[1] = "l"
IsLit(v) == v[1] = "L"

UNKNOWN == Str("UNKNOWN")
Sentinel == 65535

Min(a, b) == IF a < b THEN a ELSE b

RECURSIVE SeqSum(_)
SeqSum(q) == IF q = <<>> THEN 0 ELSE Head(q) + SeqSum(Tail(q))

InSeq(x, q) == \E i \in 1..Len(q) : q[i] = x

\* allocation of a new list object
Alloc(h, contents) == Append(h, contents)
NewAddr(h) == Len(h) + 1

(***************************************************************************)
(* models/user_profile.py: UserProfile                                     *)
(***************************************************************************)
\* the dataclass fields in declaration order (the order of asdict)
FieldOrder == << "GPA", "SCHOOL", "major", "degree", "background_institution_rating",
                 "research", "target_major", "target_country", "region",
                 "budget_max", "budget_min", "rank_max" >>

Fields == { FieldOrder[i] : i \in 1..Len(FieldOrder) }

ListFields == { "research", "region" }

\* UserProfile(): every field at its default, list fields from default_factory
NewProfile(h) ==
    LET a1 == NewAddr(h)
        h1 == Alloc(h, <<>>)
        a2 == NewAddr(h1)
        h2 == Alloc(h1, <<>>)
    IN  [ profile |->
            [ f \in Fields |->
                CASE f = "GPA" -> Num(Sentinel)
                  [] f = "SCHOOL" -> UNKNOWN
                  [] f = "major" -> UNKNOWN
                  [] f = "degree" -> UNKNOWN
                  [] f = "background_institution_rating" -> UNKNOWN
                  [] f = "research" -> Ref(a1)
                  [] f = "target_major" -> UNKNOWN
                  [] f = "target_country" -> UNKNOWN
                  [] f = "region" -> Ref(a2)
                  [] f = "budget_max" -> Num(Sentinel)
                  [] f = "budget_min" -> Num(0)
                  [] OTHER -> Num(Sentinel) ],
          heap |-> h2 ]

\* a comparison that finds every two values different
PyEq_never(h, v, w) == FALSE

\* Python's == between two values (lists compare by contents)
PyEq(h, v, w) ==
    IF IsRef(v) /\ IsRef(w) THEN h[v[2]] = h[w[2]]
    ELSE IF IsRef(v) \/ IsRef(w) THEN FALSE
    ELSE v = w

\* value in ["UNKNOWN", 0xffff, [], None]
IsMissing(h, v) ==
    \/ v = UNKNOWN
    \/ v = Num(Sentinel)
    \/ IsRef(v) /\ h[v[2]] = <<>>
    \/ v = None

\* a dict: its keys in insertion order, and the value of each key
Dict(keys, val) == [ keys |-> keys, val |-> val ]

\* asdict(self): a dict of the fields, every list copied into a new object
RECURSIVE CopyLists(_, _, _, _)
CopyLists(h, keys, val, i) ==
    IF i > Len(keys) THEN [ heap |-> h, val |-> val ]
    ELSE LET k == keys[i]
         IN  IF IsRef(val[k])
             THEN CopyLists(Alloc(h, h[val[k][2]]), keys,
                            [val EXCEPT ![k] = Ref(NewAddr(h))], i + 1)
             ELSE CopyLists(h, keys, val, i + 1)

to_dict(h, p) ==
    LET c == CopyLists(h, FieldOrder, p, 1)
    IN  [ heap |-> c.heap, dict |-> Dict(FieldOrder, c.val) ]

\* the list branch of upgradeProfile: append the items not yet present,
\* recording the key once per appended item
RECURSIVE MergeList(_, _, _, _, _)
MergeList(cur, items, key, upd, i) ==
    IF i > Len(items) THEN [ list |-> cur, updated |-> upd ]
    ELSE IF InSeq(items[i], cur)
         THEN MergeList(cur, items, key, upd, i + 1)
         ELSE MergeList(Append(cur, items[i]), items, key, Append(upd, key), i + 1)

\* the methods of UserProfile: hasattr finds them as it finds the fields
MethodNames == { "to_dict", "getProfile", "upgradeProfile",
                 "check_profile_completeness", "get_completion_summary" }

\* attributes of every object that setattr refuses a JSON value for
GuardedNames == { "__class__" }

\* an attribute that is no field and was not set on the object: a method or the class
Builtin(key) == <<"m", key>>

hasattr(p, key) == key \in DOMAIN p \cup MethodNames \cup GuardedNames
getattr(p, key) == IF key \in DOMAIN p THEN p[key] ELSE Builtin(key)
setattr(p, key, value) ==
    [ k \in DOMAIN p \cup { key } |-> IF k = key THEN value ELSE p[k] ]

\* a payload without .items(): a JSON list, string or number
NotAMapping == [ keys |-> <<>>, val |-> <<>>, not_mapping |-> TRUE ]
IsMapping(d) == "not_mapping" \notin DOMAIN d

\* lines 60-74 from the i-th key on; an exception leaves what the earlier
\* keys did
RECURSIVE UpgradeFrom(_, _, _, _, _)
UpgradeFrom(h, p, d, upd, i) ==
    IF i > Len(d.keys)
    THEN [ heap |-> h, profile |-> p, updated |-> upd, raised |-> FALSE ]
    ELSE LET key == d.keys[i]
             value == d.val[key]
         IN  IF hasattr(p, key)
             THEN LET current_value == getattr(p, key)
                  IN  IF IsRef(current_value) /\ IsRef(value)
                      THEN LET m == MergeList(h[current_value[2]], h[value[2]], key, upd, 1)
                           IN  UpgradeFrom([h EXCEPT ![current_value[2]] = m.list],
                                           p, d, m.updated, i + 1)
                      ELSE IF ~PyEq(h, current_value, value)
                           THEN IF key \in GuardedNames
                                THEN [ heap |-> h, profile |-> p, updated |-> upd,
                                       raised |-> TRUE ]
                                ELSE UpgradeFrom(h, setattr(p, key, value), d,
                                                 Append(upd, key), i + 1)
                           ELSE UpgradeFrom(h, p, d, upd, i + 1)
             ELSE UpgradeFrom(h, p, d, upd, i + 1)

\* line 60: update_data.items() raises on a payload that is no mapping
upgradeProfile(h, p, update_data) ==
    IF IsMapping(update_data)
    THEN UpgradeFrom(h, p, update_data, <<>>, 1)
    ELSE [ heap |-> h, profile |-> p, updated |-> <<>>, raised |-> TRUE ]

essential_fields == << "degree", "major", "target_country", "target_major" >>
important_fields == << "GPA", "region", "background_institution_rating", "rank_max", "budget_max" >>

RECURSIVE MissingOf(_, _, _, _)
MissingOf(h, p, names, i) ==
    IF i > Len(names) THEN <<>>
    ELSE IF IsMissing(h, p[names[i]])
         THEN <<names[i]>> \o MissingOf(h, p, names, i + 1)
         ELSE MissingOf(h, p, names, i + 1)

\* a classification that looks at the important attributes first
check_profile_completeness_importantFirst(h, p) ==
    LET missing_essential == MissingOf(h, p, essential_fields, 1)
        missing_important == MissingOf(h, p, important_fields, 1)
    IN  IF missing_essential = <<>> /\ missing_important = <<>>
        THEN [ completeness |-> "complete", missing |-> <<>> ]
        ELSE IF missing_important = <<>>
             THEN [ completeness |-> "minimal", missing |-> missing_essential ]
             ELSE [ completeness |-> "incomplete",
                    missing |-> missing_essential \o missing_important ]

check_profile_completeness(h, p) ==
    LET missing_essential == MissingOf(h, p, essential_fields, 1)
        missing_important == MissingOf(h, p, important_fields, 1)
    IN  IF missing_essential = <<>> /\ missing_important = <<>>
        THEN [ completeness |-> "complete", missing |-> <<>> ]
        ELSE IF missing_essential = <<>>
             THEN [ completeness |-> "minimal", missing |-> missing_important ]
             ELSE [ completeness |-> "incomplete",
                    missing |-> missing_essential \o missing_important ]

(***************************************************************************)
(* tools/guessed_matching_mcp.py: GuessedMatchingMCP                       *)
(***************************************************************************)
GuessKeys == { "gpa", "region", "background_institution_rating", "rank_max", "budget_max" }

guess_options ==
    [ k \in GuessKeys |->
        CASE k = "gpa" -> << Num(85), Num(87), Num(90) >>
          [] k = "region" -> << Str("US"), Str("UK"), Str("CA"), Str("SG"), Str("HK") >>
          [] k = "background_institution_rating" -> << Str("985"), Str("211"), Str("other") >>
          [] k = "rank_max" -> << Num(10), Num(30), Num(50), Num(100) >>
          [] OTHER -> << Num(1000000), Num(800000), Num(300000), Num(400000) >> ]

\* itertools.product(*lists): the first list varies slowest
RECURSIVE Product(_)
Product(lists) ==
    IF lists = <<>> THEN << <<>> >>
    ELSE LET first == Head(lists)
             rest == Product(Tail(lists))
         IN  [ k \in 1..(Len(first) * Len(rest)) |->
                 << first[((k - 1) \div Len(rest)) + 1] >> \o rest[((k - 1) % Len(rest)) + 1] ]

IndexOf(q, x) == CHOOSE i \in 1..Len(q) : q[i] = x

\* dict(zip(keys, values))
ZipDict(keys, values) ==
    Dict(keys, [ k \in { keys[i] : i \in 1..Len(keys) } |-> values[IndexOf(keys, k)] ])

_generate_guess_combinations(missing) ==
    LET fields_to_guess == SelectSeq(missing, LAMBDA f : f \in GuessKeys)
    IN  IF fields_to_guess = <<>> THEN <<>>
        ELSE LET guess_values == [ i \in 1..Len(fields_to_guess) |->
                                     guess_options[fields_to_guess[i]] ]
                 combinations == Product(guess_values)
             IN  [ i \in 1..Len(combinations) |-> ZipDict(fields_to_guess, combinations[i]) ]

\* Python truth value
Truthy(v) ==
    CASE IsStr(v) -> v[2] # ""
      [] IsNum(v) -> v[2] # 0
      [] IsLit(v) -> v[2] # <<>>
      [] OTHER -> FALSE

ApiKeys == { "degree", "gpa", "major", "budget_max", "rank_max", "region",
             "background_institution_rating" }

\* v in ["UNKNOWN", 0, 0.0, 0xffff, None, []]
Filtered(v) ==
    \/ v = UNKNOWN
    \/ v = Num(0)
    \/ v = Num(Sentinel)
    \/ v = None
    \/ v = Lit(<<>>)

\* a value as it goes into a request body: a list by its contents
Body(h, v) == IF IsRef(v) THEN Lit(h[v[2]]) ELSE v

_convert_profile_to_api_format(h, profile) ==
    LET major_list == IF Truthy(profile["major"]) /\ profile["major"] # UNKNOWN
                      THEN Lit(<< profile["major"][2] >>)
                      ELSE Lit(<<>>)
        api_data == [ k \in ApiKeys |->
                        CASE k = "degree" -> profile["degree"]
                          [] k = "gpa" -> profile["GPA"]
                          [] k = "major" -> major_list
                          [] k = "budget_max" -> profile["budget_max"]
                          [] k = "rank_max" -> profile["rank_max"]
                          [] k = "region" -> Body(h, profile["region"])
                          [] OTHER -> profile["background_institution_rating"] ]
        kept == { k \in ApiKeys : ~Filtered(api_data[k]) }
    IN  [ k \in kept |-> api_data[k] ]

\* a copy that shares the lists of d (copy.copy)
deepcopy_shallow(h, d) == [ heap |-> h, dict |-> d ]

\* copy.deepcopy(d) of a dict of scalars and lists
deepcopy(h, d) ==
    LET c == CopyLists(h, d.keys, d.val, 1)
    IN  [ heap |-> c.heap, dict |-> Dict(d.keys, c.val) ]

\* d.update(g)
RECURSIVE DictUpdate(_, _, _)
DictUpdate(d, g, i) ==
    IF i > Len(g.keys) THEN d
    ELSE LET k == g.keys[i]
         IN  IF k \in DOMAIN d.val
             THEN DictUpdate(Dict(d.keys, [d.val EXCEPT ![k] = g.val[k]]), g, i + 1)
             ELSE DictUpdate(Dict(Append(d.keys, k),
                                  [ x \in DOMAIN d.val \cup {k} |->
                                      IF x = k THEN g.val[k] ELSE d.val[x] ]), g, i + 1)

\* lines 176-202: the task of one guess combination (api_data may be empty)
PrepareTask(h, i, guess, base_profile_dict) ==
    LET c == deepcopy(h, base_profile_dict)
        temp_profile_dict == DictUpdate(c.dict, guess, 1)
        fresh == NewProfile(c.heap)
        up == upgradeProfile(fresh.heap, fresh.profile, temp_profile_dict)
        api_data == _convert_profile_to_api_format(up.heap, up.profile)
    IN  [ heap |-> up.heap,
          task |-> [ api_data |-> api_data,
                     guess_info |-> [ index |-> i, guess |-> guess ],
                     guess |-> guess,
                     temp_profile_dict |-> temp_profile_dict ] ]

\* lines 174-204: tasks_data, skipping the combinations whose api_data is empty
RECURSIVE PrepareTasks(_, _, _, _, _)
PrepareTasks(h, combos, base_profile_dict, acc, i) ==
    IF i > Len(combos) THEN [ heap |-> h, tasks |-> acc ]
    ELSE LET t == PrepareTask(h, i, combos[i], base_profile_dict)
         IN  IF DOMAIN t.task.api_data # {}
             THEN PrepareTasks(t.heap, combos, base_profile_dict, Append(acc, t.task), i + 1)
             ELSE PrepareTasks(t.heap, combos, base_profile_dict, acc, i + 1)

PoolCap == 10

\* line 361: more than 2 missing fields are not guessed
GuessLimit == 2
TooManyMissing_over3(missing) == Len(missing) > GuessLimit + 1
TooManyMissing(missing) == Len(missing) > GuessLimit

\* the futures taken last submitted first
CollectOrder_reversed(n) == [ k \in 1..n |-> n + 1 - k ]

\* line 226: the collecting loop goes through the futures in submission order
CollectOrder(n) == [ k \in 1..n |-> k ]

\* a loop that stops at the first future that gave nothing
AfterCollect_abort(cur, n, ok) == IF ok THEN cur + 1 ELSE n

\* lines 226-244: the loop goes on to the next future whatever the last one gave
AfterCollect(cur, n, ok) == cur + 1

\* line 216
MaxWorkersOf_unbounded(tasks) == Len(tasks)
MaxWorkersOf(tasks) == Min(Len(tasks), PoolCap)

\* executor.submit of every task, lines 220-223: the pool starts a thread per
\* task up to max_workers, the other tasks wait in its queue
Submitted(n, workers) == [ i \in 1..n |-> IF i <= workers THEN "running" ELSE "pending" ]

(***************************************************************************)
(* Bounds of the model                                                     *)
(***************************************************************************)
\* profiles of the initial states miss at most this many essential attributes
MaxMissingEssential == 1
\* profiles of the initial states generate at most this many guess combinations
MaxCombos == 15
\* runs of at most this many calls draw the outcomes from all of Outcomes,
\* longer runs from success and HTTP error alone
MaxVaried == 5
\* a call finishes while at most this many calls submitted before it are
\* still in flight
MaxOvertaken == 2

NoProfile == [ none |-> TRUE ]
NoResponse == [ status |-> "none" ]

\* what happens to one call: HTTP 200 with a non-empty JSON object as the
\* service's contract has it, HTTP 200 with a non-empty JSON body that lacks
\* the expected shape (a JSON array, or an object whose "summary" is null or
\* no object), HTTP 200 with an empty JSON body, another status, an
\* exception (transport error, request timeout, invalid JSON) inside the
\* call, or the call still being under way when the collecting loop's
\* future.result(timeout=35) gives up
Outcomes == { "ok", "ok_list", "empty", "http_error", "exception", "late" }

\* the outcomes of the n calls of a run: one outcome for the first call and
\* one for all the others
OutcomeVectors(n) ==
    LET kinds == IF n <= MaxVaried THEN Outcomes ELSE { "ok", "http_error" }
    IN  { [ i \in 1..n |-> IF i = 1 THEN a ELSE b ] : a, b \in kinds }

\* a call whose empty answer counts as a result
CallReturn_emptyOk(i, outcome) ==
    CASE outcome \in { "ok", "empty" } ->
           [ result |-> [ answer_to |-> i ], truthy |-> TRUE, message |-> "success" ]
      [] OTHER -> [ result |-> None, truthy |-> FALSE, message |-> outcome ]

\* _call_supplement_match_api_sync: the (result, message) pair a call returns
CallReturn(i, outcome) ==
    CASE outcome = "ok" ->
           [ result |-> [ answer_to |-> i ], truthy |-> TRUE, message |-> "success" ]
      [] outcome = "ok_list" ->
           [ result |-> [ answer_to |-> i, array |-> TRUE ], truthy |-> TRUE,
             message |-> "success" ]
      [] outcome = "empty" ->
           [ result |-> [ answer_to |-> 0 ], truthy |-> FALSE, message |-> "success" ]
      [] OTHER -> [ result |-> None, truthy |-> FALSE, message |-> outcome ]

MCPResponse_error(kind, detail) ==
    [ status |-> "error", message |-> [ kind |-> kind, detail |-> detail ] ]

MCPResponse_success(message, data) ==
    [ status |-> "success", message |-> message, data |-> data ]

(***************************************************************************)
(* Initial states: a session holding no profile, or a profile in which     *)
(* each essential and important attribute is either unset or set           *)
(***************************************************************************)
SetValue(f) ==
    CASE f = "GPA" -> Num(88)
      [] f = "major" -> Str("cs")
      [] f = "degree" -> Str("master")
      [] f = "background_institution_rating" -> Str("211")
      [] f = "target_major" -> Str("cs")
      [] f = "target_country" -> Str("US")
      [] f = "budget_max" -> Num(400000)
      [] OTHER -> Num(50)

EssentialSet == { essential_fields[i] : i \in 1..Len(essential_fields) }
ImportantSet == { important_fields[i] : i \in 1..Len(important_fields) }

\* the profile a fresh UserProfile becomes after updates that set the
\* attributes of `present` (and one research entry)
ProfileWith(present) ==
    [ heap |-> << <<"paper">>, IF "region" \in present THEN <<"EU">> ELSE <<>> >>,
      profile |-> [ f \in Fields |->
                      CASE f = "research" -> Ref(1)
                        [] f = "region" -> Ref(2)
                        [] f = "budget_min" -> Num(0)
                        [] f = "SCHOOL" -> Str("sysu")
                        [] OTHER -> IF f \in present THEN SetValue(f)
                                    ELSE NewProfile(<<>>).profile[f] ] ]

\* the number of combinations run() generates for a profile
CombosOf(h, p) ==
    LET c == check_profile_completeness(h, p)
    IN  IF c.completeness = "complete" \/ TooManyMissing(c.missing) THEN 0
        ELSE Len(_generate_guess_combinations(c.missing))

InitProfiles ==
    { ProfileWith(present) : present \in
        { s \in SUBSET (EssentialSet \cup ImportantSet) :
            Cardinality(EssentialSet \ s) <= MaxMissingEssential } }

InitAgentIdle ==
    /\ sessions = << >>
    /\ agent_context = "none"
    /\ req = << >>
    /\ touched = << >>
    /\ turns = << >>

\* no exact-match run
InitExactIdle ==
    /\ exact_pc = "PENDING"
    /\ exact_requests = <<>>
    /\ exact_svc = <<>>
    /\ exact_response = NoResponse

\* no update under way
InitUpdIdle ==
    /\ patch = <<>>
    /\ updated_fields = <<>>
    /\ raised = FALSE
    /\ n_updates = 0
    /\ reapplied = FALSE
    /\ turn_pc = "idle"
    /\ upd_response = "none"
    /\ match_response = "none"

InitRun ==
    /\ pc = "PENDING"
    /\ missing_fields = <<>>
    /\ completeness = "none"
    /\ guess_combinations = <<>>
    /\ tasks_data = <<>>
    /\ max_workers = 0
    /\ svc = <<>>
    /\ fut = <<>>
    /\ calls = <<>>
    /\ cursor = 0
    /\ timeouts = {}
    /\ all_results = <<>>
    /\ failed_calls = 0
    /\ response = NoResponse
    /\ earlier_runs = <<>>

Init ==
    /\ \/ /\ user_profile = NoProfile
          /\ heap = <<>>
       \/ \E ip \in InitProfiles :
            /\ CombosOf(ip.heap, ip.profile) <= MaxCombos
            /\ user_profile = ip.profile
            /\ heap = ip.heap
    /\ profile_before = [ profile |-> user_profile, heap |-> heap ]
    /\ InitRun
    /\ InitAgentIdle
    /\ tool = "guessed"
    /\ InitExactIdle
    /\ InitUpdIdle

(***************************************************************************)
(* GuessedMatchingMCP.run, lines 331-382: validation, generation of the    *)
(* combinations, preparation of the tasks and submission to the pool       *)
(***************************************************************************)
\* the locals of _parallel_api_calls_with_threads kept from the call before
NewLocals_carried ==
    [ cursor |-> cursor, timeouts |-> timeouts, all_results |-> all_results,
      failed_calls |-> failed_calls ]

\* lines 211-213 and 226: the locals of a call of
\* _parallel_api_calls_with_threads, created by that call
NewLocals ==
    [ cursor |-> 0, timeouts |-> {}, all_results |-> <<>>, failed_calls |-> 0 ]

RunStart ==
    /\ tool = "guessed"
    /\ pc = "PENDING"
    /\ UNCHANGED << user_profile, profile_before >>
    /\ cursor' = NewLocals.cursor
    /\ timeouts' = NewLocals.timeouts
    /\ all_results' = NewLocals.all_results
    /\ failed_calls' = NewLocals.failed_calls
    /\ IF user_profile = NoProfile
       THEN /\ response' = MCPResponse_error("ProfileMissing", <<>>)
            /\ pc' = "DONE"
            /\ UNCHANGED << heap, missing_fields, completeness, guess_combinations,
                            tasks_data, max_workers, svc, fut, calls >>
       ELSE LET c == check_profile_completeness(heap, user_profile)
                combos == _generate_guess_combinations(c.missing)
                base == to_dict(heap, user_profile)
                prep == PrepareTasks(base.heap, combos, base.dict, <<>>, 1)
                n == Len(prep.tasks)
            IN  /\ completeness' = c.completeness
                /\ missing_fields' = c.missing
                /\ IF c.completeness = "complete"
                   THEN /\ response' = MCPResponse_error("ProfileAlreadyComplete", <<>>)
                        /\ pc' = "DONE"
                        /\ UNCHANGED << heap, guess_combinations, tasks_data,
                                        max_workers, svc, fut, calls >>
                   ELSE IF TooManyMissing(c.missing)
                   THEN /\ response' = MCPResponse_error("TooManyUnknowns",
                                          [ count |-> Len(c.missing), fields |-> c.missing ])
                        /\ pc' = "DONE"
                        /\ UNCHANGED << heap, guess_combinations, tasks_data,
                                        max_workers, svc, fut, calls >>
                   ELSE IF combos = <<>>
                   THEN /\ response' = MCPResponse_error("NoGuessableFields",
                                          [ fields |-> c.missing ])
                        /\ pc' = "DONE"
                        /\ guess_combinations' = combos
                        /\ UNCHANGED << heap, tasks_data, max_workers, svc, fut, calls >>
                   ELSE IF n = 0
                   THEN \* line 206-208 and 393-396: no valid task, all_results is empty
                        /\ response' = MCPResponse_error("AllCombinationsFailed", <<>>)
                        /\ pc' = "DONE"
                        /\ guess_combinations' = combos
                        /\ heap' = prep.heap
                        /\ tasks_data' = prep.tasks
                        /\ UNCHANGED << max_workers, svc, fut, calls >>
                   ELSE /\ guess_combinations' = combos
                        /\ heap' = prep.heap
                        /\ tasks_data' = prep.tasks
                        /\ max_workers' = MaxWorkersOf(prep.tasks)
                        /\ fut' = Submitted(n, MaxWorkersOf(prep.tasks))
                        /\ calls' = [ i \in 1..n |->
                                       IF i <= MaxWorkersOf(prep.tasks) THEN 1 ELSE 0 ]
                        /\ response' = NoResponse
                        /\ pc' = "FANNED_OUT"
                        /\ svc' \in OutcomeVectors(n)
    /\ UNCHANGED << earlier_runs, agentVars, exactVars, updVars >>

(***************************************************************************)
(* The thread pool (ThreadPoolExecutor) and the collecting loop,           *)
(* lines 218-244                                                           *)
(***************************************************************************)
Running == { i \in 1..Len(fut) : fut[i] = "running" }
Pending == { i \in 1..Len(fut) : fut[i] = "pending" }

\* the worker running the call of task i ends it and takes the oldest queued
\* task, whose call it issues
WorkerFinish(i) ==
    /\ pc = "FANNED_OUT"
    /\ fut[i] = "running"
    /\ svc[i] = "late" => i \in timeouts
    /\ Cardinality({ j \in Running : j < i }) <= MaxOvertaken
    /\ IF Pending = {}
       THEN /\ fut' = [fut EXCEPT ![i] = "done"]
            /\ UNCHANGED calls
       ELSE LET next == CHOOSE j \in Pending : \A k \in Pending : j <= k
            IN  /\ fut' = [fut EXCEPT ![i] = "done", ![next] = "running"]
                /\ calls' = [calls EXCEPT ![next] = @ + 1]
    /\ UNCHANGED << heap, user_profile, pc, missing_fields, completeness,
                    guess_combinations, tasks_data, max_workers, svc, cursor,
                    timeouts, all_results, failed_calls, response, profile_before >>
    /\ UNCHANGED << earlier_runs, agentVars, exactVars, updVars >>

\* lines 226-240: future.result() of the next future returns
Collect ==
    /\ pc = "FANNED_OUT"
    /\ cursor < Len(fut)
    /\ fut[CollectOrder(Len(fut))[cursor + 1]] = "done"
    /\ LET i == CollectOrder(Len(fut))[cursor + 1]
           task == tasks_data[i]
           ret == CallReturn(i, svc[i])
       IN  /\ IF ret.truthy
              THEN /\ all_results' = Append(all_results,
                                       [ guess |-> task.guess,
                                         profile |-> task.temp_profile_dict,
                                         results |-> ret.result,
                                         guess_info |-> ret.message ])
                   /\ UNCHANGED failed_calls
              ELSE /\ failed_calls' = failed_calls + 1
                   /\ UNCHANGED all_results
           /\ cursor' = AfterCollect(cursor, Len(fut), ret.truthy)
    /\ UNCHANGED << heap, user_profile, pc, missing_fields, completeness,
                    guess_combinations, tasks_data, max_workers, svc, fut, calls,
                    timeouts, response, profile_before >>
    /\ UNCHANGED << earlier_runs, agentVars, exactVars, updVars >>

\* lines 229, 242-244: future.result(timeout=35) raises before the call is over
CollectTimeout ==
    /\ pc = "FANNED_OUT"
    /\ cursor < Len(fut)
    /\ fut[CollectOrder(Len(fut))[cursor + 1]] # "done"
    /\ svc[CollectOrder(Len(fut))[cursor + 1]] = "late"
    /\ timeouts' = timeouts \cup { CollectOrder(Len(fut))[cursor + 1] }
    /\ failed_calls' = failed_calls + 1
    /\ cursor' = AfterCollect(cursor, Len(fut), FALSE)
    /\ UNCHANGED << heap, user_profile, pc, missing_fields, completeness,
                    guess_combinations, tasks_data, max_workers, svc, fut, calls,
                    all_results, response, profile_before >>
    /\ UNCHANGED << earlier_runs, agentVars, exactVars, updVars >>

\* lines 398-413: the digest of the narrative, one entry per result
Narrative(results) ==
    [ k \in 1..Len(results) |->
        [ guess_info |-> results[k].guess_info, guess |-> results[k].guess,
          answer |-> results[k].results ] ]

\* the aggregate with the match_type of the non-threaded run
Aggregate_parallel(combos, results, missing, compl) ==
    IF results = <<>>
    THEN MCPResponse_error("AllCombinationsFailed", <<>>)
    ELSE MCPResponse_success(
           [ processed |-> Len(combos), obtained |-> Len(results),
             results_summary |-> Narrative(results) ],
           [ guessed_results |-> results,
             missing_fields |-> missing,
             completeness |-> compl,
             match_type |-> "guessed_parallel",
             total_combinations |-> Len(combos),
             successful_combinations |-> Len(results),
             failed_combinations |-> Len(combos) - Len(results) ])

\* line 406: supplement_results.get('summary', {}).get('text') raises on a
\* body of another shape than the expected one
NarrativeRaises(results) ==
    \E k \in 1..Len(results) : "array" \in DOMAIN results[k].results

\* a run without the handler of line 437: the exception of the narrative
\* goes to the caller
Aggregate_uncaught(combos, results, missing, compl) ==
    IF NarrativeRaises(results)
    THEN [ status |-> "raised" ]
    ELSE Aggregate_parallel(combos, results, missing, compl)

\* lines 388-440 once the pool has shut down (every call is over)
Aggregate(combos, results, missing, compl) ==
    IF results = <<>>
    THEN MCPResponse_error("AllCombinationsFailed", <<>>)
    ELSE IF NarrativeRaises(results)
    THEN MCPResponse_error("UnexpectedError", <<>>)
    ELSE MCPResponse_success(
           [ processed |-> Len(combos), obtained |-> Len(results),
             results_summary |-> Narrative(results) ],
           [ guessed_results |-> results,
             missing_fields |-> missing,
             completeness |-> compl,
             match_type |-> "guessed_parallel_threads",
             total_combinations |-> Len(combos),
             successful_combinations |-> Len(results),
             failed_combinations |-> Len(combos) - Len(results) ])

RunFinish ==
    /\ pc = "FANNED_OUT"
    /\ cursor = Len(fut)
    /\ \A i \in 1..Len(fut) : fut[i] = "done"
    /\ response' = Aggregate(guess_combinations, all_results, missing_fields, completeness)
    /\ pc' = "DONE"
    /\ UNCHANGED << heap, user_profile, missing_fields, completeness, guess_combinations,
                    tasks_data, max_workers, svc, fut, calls, cursor, timeouts,
                    all_results, failed_calls, profile_before >>
    /\ UNCHANGED << earlier_runs, agentVars, exactVars, updVars >>

Next ==
    \/ RunStart
    \/ \E i \in 1..Len(fut) : WorkerFinish(i)
    \/ Collect
    \/ CollectTimeout
    \/ RunFinish

Spec == Init /\ [][Next]_vars

\* the threads of the pool and the collecting loop keep running: a call
\* returns or raises, future.result returns or times out
FairSpec ==
    /\ Spec
    /\ WF_vars(\E i \in 1..Len(fut) : WorkerFinish(i))
    /\ WF_vars(Collect)
    /\ WF_vars(CollectTimeout)

(***************************************************************************)
(* api.py and RecommendationAgentMCP: concurrent /recommendation requests  *)
(* over the single global agent_instance.  A request runs on the event     *)
(* loop and gives it up only at an await that suspends (the LLM calls) or, *)
(* streamed, at a yield; each action below is one such uninterrupted piece.*)
(***************************************************************************)
MaxRequests == 2

Requests == 1..MaxRequests

UserIds == { "u1", "u2" }
SessionIds == { "s1" }

\* api.py line 101: f"{user_id}:{session_id}"
session_key(user_id, session_id) == user_id \o ":" \o session_id

\* MCPContext(): no message, no session data.  The profile of a context is
\* abstracted to the set of requests whose extracted data was merged into it.
NewContext == [ messages |-> <<>>, has_profile |-> FALSE, profile |-> {} ]

\* api.py lines 101-105
get_session_context(ss, key) ==
    IF key \in DOMAIN ss THEN ss
    ELSE [ k \in DOMAIN ss \cup { key } |-> IF k = key THEN NewContext ELSE ss[k] ]

\* MCPAgent.add_message on the context `key`
add_message(ss, key, role, r) ==
    [ ss EXCEPT ![key].messages = Append(@, [ role |-> role, from |-> r ]) ]

\* ProfileUpdaterMCP.run lines 72-80: the profile of the context, created when absent
EnsureProfile(ss, key) == [ ss EXCEPT ![key].has_profile = TRUE ]

IdleRequest == [ pc |-> "none", key |-> "", stream |-> FALSE, ctx |-> "" ]

Use(r, keys) == [ touched EXCEPT ![r] = @ \cup keys ]

InitAgent ==
    /\ user_profile = NoProfile
    /\ heap = <<>>
    /\ profile_before = [ profile |-> user_profile, heap |-> heap ]
    /\ InitRun
    /\ sessions = << >>
    /\ agent_context = "none"
    /\ req = [ r \in Requests |-> IdleRequest ]
    /\ touched = [ r \in Requests |-> {} ]
    /\ turns = << >>
    /\ tool = "none"
    /\ InitExactIdle
    /\ InitUpdIdle

\* get_recommendation lines 107-149 up to the first suspension: the context
\* of the request's key becomes the agent's; not streamed, run() goes on to
\* add_message("user") and into ProfileUpdaterMCP.run up to the LLM call
Receive(r) ==
    /\ req[r].pc = "none"
    /\ \E u \in UserIds, s \in SessionIds, stream \in BOOLEAN :
         LET key == session_key(u, s)
             ss == get_session_context(sessions, key)
         IN  /\ agent_context' = key
             /\ IF stream
                THEN /\ sessions' = ss
                     /\ req' = [ req EXCEPT ![r] = [ pc |-> "stream_start", key |-> key,
                                                     stream |-> TRUE, ctx |-> "" ] ]
                     /\ UNCHANGED touched
                ELSE /\ sessions' = EnsureProfile(add_message(ss, key, "user", r), key)
                     /\ req' = [ req EXCEPT ![r] = [ pc |-> "await_extract", key |-> key,
                                                     stream |-> FALSE, ctx |-> key ] ]
                     /\ touched' = Use(r, { key })
    /\ UNCHANGED << turns, runVars, exactVars, updVars >>

\* run_stream lines 90-93: the generator starts when the response is sent;
\* add_message("user") goes to the agent's context of that moment
StreamStart(r) ==
    /\ req[r].pc = "stream_start"
    /\ sessions' = add_message(sessions, agent_context, "user", r)
    /\ touched' = Use(r, { agent_context })
    /\ req' = [ req EXCEPT ![r].pc = "stream_yield1" ]
    /\ UNCHANGED << agent_context, turns, runVars, exactVars, updVars >>

\* run_stream line 94 into ProfileUpdaterMCP.run up to the LLM call
StreamUpdate(r) ==
    /\ req[r].pc = "stream_yield1"
    /\ sessions' = EnsureProfile(sessions, agent_context)
    /\ touched' = Use(r, { agent_context })
    /\ req' = [ req EXCEPT ![r].pc = "await_extract", ![r].ctx = agent_context ]
    /\ UNCHANGED << agent_context, turns, runVars, exactVars, updVars >>

\* _perform_matching lines 146-182 reads the profile of self.context; the
\* outcome of the matching tool is left open here
MatchingOutcomes == { "success", "error" }

\* the LLM extraction returns: ProfileUpdaterMCP.run lines 87-135 on the
\* profile it took before the call; then, not streamed, run() lines 63-72
\* (matching, up to the LLM call of _generate_final_response); streamed,
\* run_stream lines 95-100
ExtractDone(r) ==
    /\ req[r].pc = "await_extract"
    /\ \E out \in { "error", "no_change", "updated" }, m \in MatchingOutcomes :
         IF out = "error"
         THEN /\ req' = [ req EXCEPT ![r].pc = "done" ]
              /\ UNCHANGED << sessions, touched >>
         ELSE /\ sessions' = IF out = "updated"
                             THEN [ sessions EXCEPT ![req[r].ctx].profile = @ \cup { r } ]
                             ELSE sessions
              /\ IF req[r].stream
                 THEN /\ req' = [ req EXCEPT ![r].pc = "stream_yield2" ]
                      /\ touched' = Use(r, { req[r].ctx })
                 ELSE /\ req' = [ req EXCEPT ![r].pc =
                                     IF m = "error" THEN "done" ELSE "await_generate" ]
                      /\ touched' = Use(r, { req[r].ctx, agent_context })
    /\ UNCHANGED << agent_context, turns, runVars, exactVars, updVars >>

\* run_stream lines 101-107
StreamMatch(r) ==
    /\ req[r].pc = "stream_yield2"
    /\ \E m \in MatchingOutcomes :
         req' = [ req EXCEPT ![r].pc = IF m = "error" THEN "done" ELSE "stream_generate" ]
    /\ touched' = Use(r, { agent_context })
    /\ UNCHANGED << sessions, agent_context, turns, runVars, exactVars, updVars >>

\* the LLM generation returns: _generate_final_response lines 207-221 and
\* run() lines 73-79, add_message("assistant") on the agent's context
GenerateDone(r) ==
    /\ req[r].pc = "await_generate"
    /\ \E g \in { "content", "fallback", "exception" } :
         IF g = "exception"
         THEN UNCHANGED << sessions, touched >>
         ELSE /\ sessions' = add_message(sessions, agent_context, "assistant", r)
              /\ touched' = Use(r, { agent_context })
    /\ req' = [ req EXCEPT ![r].pc = "done" ]
    /\ UNCHANGED << agent_context, turns, runVars, exactVars, updVars >>

\* run_stream lines 108-109: the streamed reply is not recorded
StreamGenerateDone(r) ==
    /\ req[r].pc = "stream_generate"
    /\ req' = [ req EXCEPT ![r].pc = "done" ]
    /\ UNCHANGED << sessions, agent_context, touched, turns, runVars, exactVars, updVars >>

NextAgent ==
    \/ \E r \in Requests : Receive(r)
    \/ \E r \in Requests : StreamStart(r)
    \/ \E r \in Requests : StreamUpdate(r)
    \/ \E r \in Requests : ExtractDone(r)
    \/ \E r \in Requests : StreamMatch(r)
    \/ \E r \in Requests : GenerateDone(r)
    \/ \E r \in Requests : StreamGenerateDone(r)

SpecAgent == InitAgent /\ [][NextAgent]_vars

\* C1: every step of a request uses only the context of the request's own
\* (user_id, session_id): the contexts whose profile or messages its steps
\* read or wrote are its own one.
C1_RequestUsesOwnContext ==
    \A r \in DOMAIN req :
        req[r].pc # "none" => touched[r] \subseteq { req[r].key }

(***************************************************************************)
(* UserProfile.upgradeProfile and check_profile_completeness on their own: *)
(* a profile receives payloads as ProfileUpdaterMCP.run hands them over    *)
(* (profile_updater_mcp.py line 110, the JSON the extraction returned).    *)
(***************************************************************************)
MaxUpdates == 2

\* JSON payloads: a mapping is a sequence of <<key, value>> pairs in which
\* a list value is written by its contents, Lit(<<...>>)
Payloads ==
    { << <<"degree", Str("master")>> >>,
      << <<"degree", None>> >>,
      << <<"degree", Lit(<<"x", "x">>)>> >>,
      << <<"GPA", Num(88)>> >>,
      << <<"GPA", Num(Sentinel)>> >>,
      << <<"region", Lit(<<"EU">>)>> >>,
      << <<"region", Lit(<<"US", "EU", "US">>)>> >>,
      << <<"region", Str("US")>> >>,
      << <<"research", Lit(<<"paper", "lab">>)>>, <<"rank_max", Num(50)>> >>,
      << <<"nickname", Str("x")>> >>,
      << <<"nickname", Lit(<<"x">>)>>, <<"degree", Str("master")>> >>,
      << <<"to_dict", Str("x")>> >>,
      << <<"GPA", Num(90)>>, <<"__class__", Str("x")>> >>,
      << <<"not_a_mapping", None>> >> }

\* json.loads: the payload as Python objects, every list a new object
RECURSIVE Loads(_, _, _, _)
Loads(h, pairs, d, i) ==
    IF i > Len(pairs) THEN [ heap |-> h, dict |-> d ]
    ELSE LET k == pairs[i][1]
             v == pairs[i][2]
         IN  IF IsLit(v)
             THEN Loads(Alloc(h, v[2]),
                        pairs,
                        Dict(Append(d.keys, k),
                             [ x \in DOMAIN d.val \cup { k } |->
                                 IF x = k THEN Ref(NewAddr(h)) ELSE d.val[x] ]),
                        i + 1)
             ELSE Loads(h, pairs,
                        Dict(Append(d.keys, k),
                             [ x \in DOMAIN d.val \cup { k } |->
                                 IF x = k THEN v ELSE d.val[x] ]),
                        i + 1)

EmptyDict == Dict(<<>>, [ x \in {} |-> None ])

FromJson(h, pairs) ==
    IF pairs[1][1] = "not_a_mapping"
    THEN [ heap |-> h, dict |-> NotAMapping ]
    ELSE Loads(h, pairs, EmptyDict, 1)

\* the profiles the updates start from: a fresh one, and profiles earlier
\* updates have filled (all attributes set, or all but one)
InitUpdProfiles ==
    { NewProfile(<<>>) }
      \cup { ProfileWith(present) : present \in
               { EssentialSet \cup ImportantSet }
                 \cup { (EssentialSet \cup ImportantSet) \ { f } :
                          f \in EssentialSet \cup ImportantSet } }

InitUpd ==
    /\ \E ip \in InitUpdProfiles :
         /\ user_profile = ip.profile
         /\ heap = ip.heap
    /\ profile_before = [ profile |-> user_profile, heap |-> heap ]
    /\ InitRun
    /\ InitAgentIdle
    /\ tool = "none"
    /\ InitExactIdle
    /\ InitUpdIdle

\* lines 56-76 on update_data
Apply(d, h, again) ==
    LET up == upgradeProfile(h, user_profile, d)
    IN  /\ profile_before' = [ profile |-> user_profile, heap |-> h ]
        /\ patch' = d
        /\ user_profile' = up.profile
        /\ heap' = up.heap
        /\ updated_fields' = up.updated
        /\ raised' = up.raised
        /\ n_updates' = n_updates + 1
        /\ reapplied' = again
        /\ UNCHANGED << turn_pc, upd_response, match_response >>

\* user_profile.upgradeProfile(updates) with a payload just parsed
Update ==
    /\ n_updates < MaxUpdates
    /\ \E pairs \in Payloads :
         LET j == FromJson(heap, pairs) IN Apply(j.dict, j.heap, FALSE)
    /\ UNCHANGED << pc, missing_fields, completeness, guess_combinations, tasks_data,
                    max_workers, svc, fut, calls, cursor, timeouts, all_results,
                    failed_calls, response, earlier_runs >>
    /\ UNCHANGED << agentVars, exactVars >>

\* the same payload object handed over once more, right after
UpdateAgain ==
    /\ n_updates > 0
    /\ ~reapplied
    /\ ~raised
    /\ Apply(patch, heap, TRUE)
    /\ UNCHANGED << pc, missing_fields, completeness, guess_combinations, tasks_data,
                    max_workers, svc, fut, calls, cursor, timeouts, all_results,
                    failed_calls, response, earlier_runs >>
    /\ UNCHANGED << agentVars, exactVars >>

NextUpd == Update \/ UpdateAgain

SpecUpd == InitUpd /\ [][NextUpd]_vars

(***************************************************************************)
(* RecommendationAgentMCP.run (recommendation_agent_mcp.py): the turns of   *)
(* one session processed one after the other, each the profile update      *)
(* (ProfileUpdaterMCP.run) followed by the matching step                   *)
(***************************************************************************)
MaxAgentTurns == 2

\* what a turn gives ProfileUpdaterMCP.run to work on: an empty user input,
\* an extraction that failed, extracted text holding no JSON object (or the
\* object {}), text in braces that json.loads rejects, or a JSON object
Extractions == { "empty_input", "failed", "no_json", "bad_json", "json" }

\* the JSON objects an extraction returns
TurnPayloads ==
    { pairs \in Payloads : pairs[1][1] # "not_a_mapping" }
      \cup { << <<"get_completion_summary", Str("x")>> >> }

\* an instance attribute set under the name of a method: calling the name
\* raises TypeError
Shadowed(p, name) == name \in DOMAIN p

\* get_completion_summary(), user_profile.py lines 118-132, raises: it calls
\* check_profile_completeness()
SummaryRaises(p) ==
    Shadowed(p, "get_completion_summary") \/ Shadowed(p, "check_profile_completeness")

\* a tool that reports an exception of the update as a no-op
UpdaterStatus_lenient(up) ==
    IF up.raised \/ up.updated = <<>> THEN "no_change"
    ELSE IF SummaryRaises(up.profile) \/ Shadowed(up.profile, "to_dict") THEN "error"
    ELSE "success"

\* profile_updater_mcp.py lines 110-135: the status returned after
\* upgradeProfile(updates)
UpdaterStatus(up) ==
    IF up.raised THEN "error"
    ELSE IF up.updated = <<>> THEN "no_change"
    ELSE IF SummaryRaises(up.profile) \/ Shadowed(up.profile, "to_dict") THEN "error"
    ELSE "success"

\* profile_updater_mcp.py lines 67-107: the status returned before any update
EarlyStatus(e) == IF e = "no_json" THEN "no_change" ELSE "error"

\* _perform_matching, lines 131-182: the executor invoked for the profile
_perform_matching(h, p) ==
    IF SummaryRaises(p)
    THEN [ status |-> "error", tool |-> "none" ]
    ELSE LET c == check_profile_completeness(h, p).completeness
         IN  CASE c = "complete" -> [ status |-> "executor", tool |-> "certain" ]
               [] c = "minimal" -> [ status |-> "executor", tool |-> "guessed" ]
               [] OTHER -> [ status |-> "success", tool |-> "none" ]

InitTurns ==
    /\ \E ip \in InitUpdProfiles :
         /\ user_profile = ip.profile
         /\ heap = ip.heap
    /\ profile_before = [ profile |-> user_profile, heap |-> heap ]
    /\ InitRun
    /\ InitAgentIdle
    /\ tool = "none"
    /\ InitExactIdle
    /\ InitUpdIdle

\* run lines 57-61: the message recorded and the profile update awaited
\* (ProfileUpdaterMCP.run, lines 65-135)
TurnUpdate ==
    /\ turn_pc = "idle"
    /\ Len(turns) < MaxAgentTurns
    /\ \E e \in Extractions :
         /\ turns' = Append(turns, [ extraction |-> e ])
         /\ IF e = "json"
            THEN \E pairs \in TurnPayloads :
                   LET j == FromJson(heap, pairs)
                       up == upgradeProfile(j.heap, user_profile, j.dict)
                   IN  /\ patch' = j.dict
                       /\ user_profile' = up.profile
                       /\ heap' = up.heap
                       /\ updated_fields' = up.updated
                       /\ raised' = up.raised
                       /\ n_updates' = n_updates + 1
                       /\ upd_response' = UpdaterStatus(up)
            ELSE /\ upd_response' = EarlyStatus(e)
                 /\ raised' = FALSE
                 /\ UNCHANGED << patch, user_profile, heap, updated_fields, n_updates >>
    /\ profile_before' = [ profile |-> user_profile, heap |-> heap ]
    /\ turn_pc' = "updated"
    /\ match_response' = "none"
    /\ tool' = "none"
    /\ UNCHANGED << pc, missing_fields, completeness, guess_combinations, tasks_data,
                    max_workers, svc, fut, calls, cursor, timeouts, all_results,
                    failed_calls, response, earlier_runs, reapplied >>
    /\ UNCHANGED << sessions, agent_context, req, touched,
                    exact_pc, exact_requests, exact_svc, exact_response >>

\* run lines 63-67: an update that returned ERROR ends the turn, any other
\* update is followed by _perform_matching
TurnMatch ==
    /\ turn_pc = "updated"
    /\ IF upd_response = "error"
       THEN /\ match_response' = "not_run"
            /\ tool' = "none"
       ELSE LET m == _perform_matching(heap, user_profile)
            IN  /\ match_response' = m.status
                /\ tool' = m.tool
    /\ turn_pc' = "idle"
    /\ UNCHANGED << runVars, agentVars, exact_pc, exact_requests, exact_svc, exact_response,
                    patch, updated_fields, raised, n_updates, reapplied, upd_response >>

NextTurns == TurnUpdate \/ TurnMatch

SpecTurns == InitTurns /\ [][NextTurns]_vars

(***************************************************************************)
(* The session store of api.py: requests served one after the other, each *)
(* with the context get_session_context gives it                           *)
(***************************************************************************)
MaxTurns == 3

\* user_id and session_id are any strings of the request body
TurnUserIds == { "", "u1", "u1:s1" }
TurnSessionIds == { "s1", "s1:s1" }

InitSessions ==
    /\ user_profile = NoProfile
    /\ heap = <<>>
    /\ profile_before = [ profile |-> user_profile, heap |-> heap ]
    /\ InitRun
    /\ InitAgentIdle
    /\ tool = "none"
    /\ InitExactIdle
    /\ InitUpdIdle

\* api.py lines 87-105 and ProfileUpdaterMCP.run lines 71-80: the request
\* gets the context of its key, created when absent; the profile of that
\* context (created when absent) is what the turn sees and adds to
Turn ==
    /\ Len(turns) < MaxTurns
    /\ \E u \in TurnUserIds, s \in TurnSessionIds :
         IF u = "" \/ s = ""
         THEN \* line 98-99: HTTP 400
              /\ turns' = Append(turns, [ user_id |-> u, session_id |-> s,
                                          ctx |-> "none", seen |-> {} ])
              /\ UNCHANGED sessions
         ELSE LET key == session_key(u, s)
                  ss == get_session_context(sessions, key)
              IN  /\ turns' = Append(turns, [ user_id |-> u, session_id |-> s,
                                              ctx |-> key, seen |-> ss[key].profile ])
                  /\ sessions' = [ EnsureProfile(ss, key) EXCEPT
                                     ![key].profile = @ \cup { Len(turns) + 1 } ]
    /\ UNCHANGED << agent_context, req, touched, runVars, exactVars, updVars >>

NextSessions == Turn

SpecSessions == InitSessions /\ [][NextSessions]_vars

(***************************************************************************)
(* CertainMatchingMCP.run (tools/certain_matching_mcp.py), and the two     *)
(* matching tools side by side: the tool that is run is `tool`.            *)
(***************************************************************************)
MaxToolCombos == 3

\* CertainMatchingMCP._convert_profile_to_api_format, lines 27-44: the same
\* conversion as in the speculative tool
Certain_convert_profile_to_api_format(h, profile) ==
    _convert_profile_to_api_format(h, profile)

\* what the service does with a query: a JSON object, a JSON array, a
\* status that raise_for_status rejects, or no answer (connection error)
ExactOutcomes == { "ok", "ok_list", "http_error", "exception" }

\* _call_supplement_match_api / _call_case_match_api return instead of raising
Returned_always(outcome) == TRUE
Returned(outcome) == outcome \in { "ok", "ok_list" }

\* line 198: if not api_data
IsEmptyQuery_never(api_data) == FALSE
IsEmptyQuery(api_data) == DOMAIN api_data = {}

\* the summary of a JSON object the service returns: the programs and cases
\* it reports
ServiceSummary == [ total_programs |-> 3, total_cases |-> 2 ]

\* the JSON a query returned: an object of the service has a summary and
\* the results by type, and no key "matches" or "cases"
ResultOf(endpoint, outcome) ==
    IF outcome = "ok"
    THEN [ answer_to |-> endpoint, json |-> outcome, summary |-> ServiceSummary,
           type_results |-> <<>> ]
    ELSE [ answer_to |-> endpoint, json |-> outcome ]

\* lines 222-223: len(result.get(key, []))
CountOf(result, key) == IF key \in DOMAIN result THEN Len(result[key]) ELSE 0

\* lines 205-208
user_info(h, profile) ==
    [ gpa |-> Body(h, profile["GPA"]),
      background_rating |-> Body(h, profile["background_institution_rating"]) ]

\* a profile in which the scalar attributes of `present` that go into a
\* query were set to 0 by an update
ZeroedFields == { "degree", "major", "GPA", "budget_max", "rank_max",
                  "background_institution_rating" }

ZeroProfile(present) ==
    LET ip == ProfileWith(present)
    IN  [ heap |-> ip.heap,
          profile |-> [ f \in DOMAIN ip.profile |->
                          IF f \in ZeroedFields \cap present THEN Num(0)
                          ELSE ip.profile[f] ] ]

\* a profile whose region, replaced by a string in one update and by a list
\* in a later one (upgradeProfile lines 70-71), holds an item twice
RepeatedRegionProfile(present) ==
    LET ip == ProfileWith(present)
    IN  [ heap |-> [ ip.heap EXCEPT ![2] = << "US", "EU", "US" >> ],
          profile |-> ip.profile ]

InitToolProfiles ==
    InitProfiles
      \cup { ZeroProfile(present) : present \in
               { s \in SUBSET (EssentialSet \cup ImportantSet) : EssentialSet \subseteq s } }
      \cup { RepeatedRegionProfile((EssentialSet \cup ImportantSet) \ missing) : missing \in
               { {}, { "background_institution_rating" } } }

InitTools ==
    /\ tool \in { "certain", "guessed" }
    /\ \/ /\ user_profile = NoProfile
          /\ heap = <<>>
       \/ \E ip \in InitToolProfiles :
            /\ tool = "guessed" => CombosOf(ip.heap, ip.profile) <= MaxToolCombos
            /\ user_profile = ip.profile
            /\ heap = ip.heap
    /\ profile_before = [ profile |-> user_profile, heap |-> heap ]
    /\ InitRun
    /\ InitAgentIdle
    /\ InitExactIdle
    /\ InitUpdIdle

\* lines 175-202: validation, conversion and the primary query posted
ExactStart ==
    /\ tool = "certain"
    /\ exact_pc = "PENDING"
    /\ IF user_profile = NoProfile
       THEN /\ exact_response' = MCPResponse_error("ProfileMissing", <<>>)
            /\ exact_pc' = "DONE"
            /\ UNCHANGED << exact_requests, exact_svc >>
       ELSE LET c == check_profile_completeness(heap, user_profile)
                api_data == Certain_convert_profile_to_api_format(heap, user_profile)
            IN  IF c.completeness = "incomplete"
                THEN /\ exact_response' = MCPResponse_error("ProfileIncomplete",
                                             [ fields |-> c.missing ])
                     /\ exact_pc' = "DONE"
                     /\ UNCHANGED << exact_requests, exact_svc >>
                ELSE IF IsEmptyQuery(api_data)
                THEN /\ exact_response' = MCPResponse_error("EmptyQuery", <<>>)
                     /\ exact_pc' = "DONE"
                     /\ UNCHANGED << exact_requests, exact_svc >>
                ELSE /\ exact_requests' = << [ endpoint |-> "supplement_match",
                                               body |-> api_data ] >>
                     /\ exact_svc' \in [ { "supplement_match", "case_match" } -> ExactOutcomes ]
                     /\ exact_response' = NoResponse
                     /\ exact_pc' = "PRIMARY_SENT"
    /\ UNCHANGED << tool, runVars, agentVars, updVars >>

\* lines 202-211: the primary query returns or raises; the enrichment query posted
ExactPrimaryReturn ==
    /\ exact_pc = "PRIMARY_SENT"
    /\ IF Returned(exact_svc["supplement_match"])
       THEN /\ exact_requests' =
                 Append(exact_requests,
                        [ endpoint |-> "case_match",
                          body |-> [ match_results |->
                                       ResultOf("supplement_match",
                                                exact_svc["supplement_match"]),
                                     user_info |-> user_info(heap, user_profile) ] ])
            /\ exact_pc' = "CASE_SENT"
            /\ UNCHANGED exact_response
       ELSE /\ exact_response' = MCPResponse_error("UpstreamError",
                                    [ query |-> "supplement_match" ])
            /\ exact_pc' = "DONE"
            /\ UNCHANGED exact_requests
    /\ UNCHANGED << tool, exact_svc, runVars, agentVars, updVars >>

\* lines 211-235: the enrichment query returns or raises; the summary
\* (.get on a result that is no JSON object raises)
ExactCaseReturn ==
    /\ exact_pc = "CASE_SENT"
    /\ exact_response' =
         IF ~Returned(exact_svc["case_match"])
         THEN MCPResponse_error("UpstreamError", [ query |-> "case_match" ])
         ELSE IF exact_svc["supplement_match"] # "ok" \/ exact_svc["case_match"] # "ok"
         THEN MCPResponse_error("UpstreamError", [ query |-> "summary" ])
         ELSE MCPResponse_success(
                [ supplement_count |->
                    CountOf(ResultOf("supplement_match", "ok"), "matches"),
                  case_count |-> CountOf(ResultOf("case_match", "ok"), "cases") ],
                [ supplement_matches |-> ResultOf("supplement_match", "ok"),
                  case_matches |-> ResultOf("case_match", "ok"),
                  profile_used |-> exact_requests[1].body,
                  completeness |-> check_profile_completeness(heap, user_profile).completeness ])
    /\ exact_pc' = "DONE"
    /\ UNCHANGED << tool, exact_requests, exact_svc, runVars, agentVars, updVars >>

\* a run() has returned and the caller calls run() of the same tool instance
\* again: what the frame of the earlier call held is no longer referred to
MaxRuns == 2

Restart ==
    /\ tool = "guessed"
    /\ pc = "DONE"
    /\ Len(earlier_runs) + 1 < MaxRuns
    /\ earlier_runs' = Append(earlier_runs, response.status)
    /\ pc' = "PENDING"
    /\ response' = NoResponse
    /\ UNCHANGED << heap, user_profile, missing_fields, completeness, guess_combinations,
                    tasks_data, max_workers, svc, fut, calls, cursor, timeouts,
                    all_results, failed_calls, profile_before >>
    /\ UNCHANGED << agentVars, exactVars, updVars >>

NextTools ==
    \/ Restart
    \/ ExactStart
    \/ ExactPrimaryReturn
    \/ ExactCaseReturn
    \/ RunStart
    \/ \E i \in 1..Len(fut) : WorkerFinish(i)
    \/ Collect
    \/ CollectTimeout
    \/ RunFinish

SpecTools == InitTools /\ [][NextTools]_vars

\* run() goes on once it has started: the threads of the pool, the
\* collecting loop and the statements after it keep running
FairSpecTools ==
    /\ SpecTools
    /\ WF_vars(\E i \in 1..Len(fut) : WorkerFinish(i))
    /\ WF_vars(Collect)
    /\ WF_vars(CollectTimeout)
    /\ WF_vars(RunFinish)

(***************************************************************************)
(* Properties of the speculative run                                       *)
(***************************************************************************)
HasProfile == user_profile # NoProfile

MissingEssential == MissingOf(heap, user_profile, essential_fields, 1)
MissingImportant == MissingOf(heap, user_profile, important_fields, 1)

SeqToSet(q) == { q[i] : i \in 1..Len(q) }

IsError(kind) == response.status = "error" /\ response.message.kind = kind
IsSuccess == response.status = "success"

\* the run got as far as the thread pool
FannedOut == Len(fut) > 0

CallsIssued == SeqSum(calls)

\* the calls whose future gave the collecting loop a usable result
Succeeded == { i \in 1..Len(svc) : svc[i] \in { "ok", "ok_list" } }
FailedCalls == { i \in 1..Len(svc) : svc[i] \notin { "ok", "ok_list" } }

\* C2: once run() has looked at a profile with more than 2 missing important
\* attributes it has returned ERROR TooManyUnknowns, whose message carries
\* the number and the names of the missing attributes (all the missing
\* important ones among them), and no combination was generated, no task
\* prepared and no external call issued.
C2_TooManyUnknownsBeforeAnyCall ==
    (HasProfile /\ Len(MissingImportant) > 2 /\ pc # "PENDING") =>
        /\ pc = "DONE"
        /\ IsError("TooManyUnknowns")
        /\ response.message.detail.count = Len(response.message.detail.fields)
        /\ SeqToSet(MissingImportant) \subseteq SeqToSet(response.message.detail.fields)
        /\ (MissingEssential = <<>> => response.message.detail.fields = MissingImportant)
        /\ guess_combinations = <<>>
        /\ tasks_data = <<>>
        /\ CallsIssued = 0

C2_Witness ==
    /\ HasProfile
    /\ pc = "DONE"
    /\ MissingEssential = <<>>
    /\ Len(MissingImportant) = 3
    /\ IsError("TooManyUnknowns")
    /\ response.message.detail.count = 3

\* C3: a run that generated N >= 1 combinations returns SUCCESS exactly when
\* at least one call succeeded, with successful_combinations the number of
\* calls that succeeded and failed_combinations the number that did not; it
\* returns ERROR AllCombinationsFailed exactly when every call failed, which
\* is not the error of a run that generated no combination.
C3_SuccessIffOneCallSucceeded ==
    (pc = "DONE" /\ guess_combinations # <<>>) =>
        /\ IsSuccess <=> Succeeded # {}
        /\ IsSuccess =>
             /\ response.data.successful_combinations = Cardinality(Succeeded)
             /\ response.data.failed_combinations = Cardinality(FailedCalls)
             /\ response.data.total_combinations = Len(guess_combinations)
        /\ IsError("AllCombinationsFailed") <=> Succeeded = {}
        /\ ~IsError("NoGuessableFields")

\* C4: every generated combination has exactly one task and never more than
\* one external call; when the run returns, each combination's call was
\* issued exactly once, is over, and was gone through by the collecting
\* loop (as a result or as a failure), whatever the other calls' outcomes.
C4_OneCallPerCombination ==
    /\ \A i \in 1..Len(calls) : calls[i] <= 1
    /\ FannedOut =>
         /\ Len(tasks_data) = Len(guess_combinations)
         /\ \A i \in 1..Len(tasks_data) : tasks_data[i].guess = guess_combinations[i]
    /\ (pc = "DONE" /\ guess_combinations # <<>>) =>
         /\ Len(calls) = Len(guess_combinations)
         /\ \A i \in 1..Len(calls) : calls[i] = 1 /\ fut[i] = "done"
         /\ Len(all_results) + failed_calls = Len(guess_combinations)

C4_Witness ==
    /\ pc = "DONE"
    /\ Len(svc) >= 3
    /\ svc[1] \in { "exception", "late", "http_error" }
    /\ svc[2] = "ok"
    /\ \A i \in 1..Len(calls) : calls[i] = 1
    /\ Len(all_results) = Len(svc) - 1

\* a queued call starts only in a step in which a call in flight ends
StartOnlyOnFinish ==
    \A i \in 1..Len(fut) :
        (fut[i] = "pending" /\ Len(fut') = Len(fut) /\ fut'[i] = "running") =>
            \E j \in 1..Len(fut) : fut[j] = "running" /\ fut'[j] = "done"

\* C5: at most 10 calls are in flight at any moment; a queued call starts
\* only as a call in flight ends; and every queued call is eventually
\* started (the queue of the pool drains).
C5_BoundedFanOut ==
    /\ [](Cardinality(Running) <= 10)
    /\ [][StartOnlyOnFinish]_vars
    /\ ((Pending # {}) ~> (Pending = {}))

C5_Witness ==
    /\ Len(fut) > 10
    /\ Cardinality(Running) = 10
    /\ \E i \in Running : i > 10
    /\ Pending # {}

\* the results a run must give for its tasks and the outcomes of its calls:
\* the successful combinations in cross-product generation order
RECURSIVE ExpectedResults(_)
ExpectedResults(n) ==
    IF n = 0 THEN <<>>
    ELSE IF svc[n] \in { "ok", "ok_list" }
         THEN Append(ExpectedResults(n - 1),
                     [ guess |-> guess_combinations[n],
                       profile |-> tasks_data[n].temp_profile_dict,
                       results |-> IF svc[n] = "ok" THEN [ answer_to |-> n ]
                                   ELSE [ answer_to |-> n, array |-> TRUE ],
                       guess_info |-> "success" ])
         ELSE ExpectedResults(n - 1)

\* the place of a combination in the cross product
PlaceOf(guess) ==
    CHOOSE i \in 1..Len(guess_combinations) : guess_combinations[i] = guess

\* C6: whatever the order in which the calls end, the results collected so
\* far are the successful combinations among the first `cursor` ones in
\* generation order, and the returned guessed_results and narrative list the
\* successful combinations in generation order: the output is a function of
\* the combinations and of the calls' outcomes alone.
C6_GenerationOrder ==
    /\ FannedOut => all_results = ExpectedResults(cursor)
    /\ (pc = "DONE" /\ IsSuccess) =>
         /\ response.data.guessed_results = ExpectedResults(Len(svc))
         /\ Len(response.message.results_summary) = Len(response.data.guessed_results)
         /\ \A k \in 1..Len(response.message.results_summary) :
              /\ response.message.results_summary[k].guess
                   = response.data.guessed_results[k].guess
              /\ k > 1 => PlaceOf(response.message.results_summary[k - 1].guess)
                            < PlaceOf(response.message.results_summary[k].guess)

\* the third call ended before the second, and the loop has collected the first
C6_Witness ==
    /\ pc = "FANNED_OUT"
    /\ Len(fut) >= 3
    /\ cursor = 1
    /\ Len(all_results) = 1
    /\ fut[2] = "running"
    /\ fut[3] = "done"
    /\ svc[2] = "ok"
    /\ svc[3] = "ok"

\* the candidate list of an important attribute in the guess table
CandidatesOf(f) == guess_options[IF f = "GPA" THEN "gpa" ELSE f]

RECURSIVE CandidateProduct(_)
CandidateProduct(fs) ==
    IF fs = <<>> THEN 1 ELSE Len(CandidatesOf(Head(fs))) * CandidateProduct(Tail(fs))

\* C7: for a profile with every essential attribute set and one or two
\* important attributes missing, the run generates (and reports as
\* total_combinations) the product of the sizes of the candidate lists of
\* the missing attributes.
C7_ProductOfCandidateLists ==
    (HasProfile /\ pc # "PENDING" /\ MissingEssential = <<>>
        /\ Len(MissingImportant) \in { 1, 2 }) =>
        /\ Len(guess_combinations) = CandidateProduct(MissingImportant)
        /\ Len(tasks_data) = CandidateProduct(MissingImportant)
        /\ IsSuccess => response.data.total_combinations = CandidateProduct(MissingImportant)

KeysOf(d) == { d.keys[i] : i \in 1..Len(d.keys) }

\* C8: each of the five important attribute names has a candidate list in
\* the guess table under that name, and every combination generated for a
\* profile assigns a value to each important attribute reported missing.
C8_EveryMissingImportantGuessed ==
    (HasProfile /\ pc # "PENDING") =>
        /\ \A i \in 1..Len(important_fields) : important_fields[i] \in DOMAIN guess_options
        /\ \A i \in 1..Len(guess_combinations) :
              SeqToSet(MissingImportant) \subseteq KeysOf(guess_combinations[i])

\* every essential attribute set; grade metric, region and tier unset
GradeRegionTierUnset ==
    /\ HasProfile
    /\ MissingEssential = <<>>
    /\ { "GPA", "region", "background_institution_rating" } \subseteq SeqToSet(MissingImportant)

\* C9 as stated: such a profile is MINIMAL, the run attempts the cross
\* product of guesses and returns SUCCESS with match_type "guessed_parallel"
\* whenever at least one call succeeded.
C9_AsStated ==
    (GradeRegionTierUnset /\ pc = "DONE") =>
        /\ completeness = "minimal"
        /\ guess_combinations # <<>>
        /\ CallsIssued = Len(guess_combinations)
        /\ Succeeded # {} =>
             IsSuccess /\ response.data.match_type = "guessed_parallel"

\* C9 amended: a profile with every essential attribute set and grade
\* metric, region and tier unset is MINIMAL, and the run attempts no
\* combination for it: it returns ERROR TooManyUnknowns; a run that did fan
\* out and returns SUCCESS (at least one call succeeded) has the
\* data.match_type "guessed_parallel_threads".
C9_ThreeUnsetRejected ==
    /\ (GradeRegionTierUnset /\ pc = "DONE") =>
         /\ completeness = "minimal"
         /\ response.status = "error"
         /\ response.message.kind = "TooManyUnknowns"
         /\ guess_combinations = <<>>
         /\ ~FannedOut
    /\ (pc = "DONE" /\ FannedOut /\ IsSuccess) =>
         /\ Succeeded # {}
         /\ response.data.match_type = "guessed_parallel_threads"

C9_Witness ==
    /\ HasProfile
    /\ pc = "DONE"
    /\ MissingEssential = <<>>
    /\ SeqToSet(MissingImportant) = { "GPA", "region", "background_institution_rating" }
    /\ completeness = "minimal"
    /\ response.status = "error"

\* the list objects a profile or profile dict refers to
RefsOfProfile(p) == { p[f][2] : f \in { g \in DOMAIN p : IsRef(p[g]) } }
RefsOfDict(d) == RefsOfProfile(d.val)

\* C10: the base profile is never mutated - every attribute, and the
\* contents of every list it refers to, is as it was before the run, at
\* every point of the run and after it returned with any outcome - and the
\* per-combination profiles share no list with the base profile or with
\* each other.
C10_BaseProfileUntouched ==
    /\ user_profile = profile_before.profile
    /\ HasProfile =>
         /\ \A a \in RefsOfProfile(user_profile) : heap[a] = profile_before.heap[a]
         /\ \A i \in 1..Len(tasks_data) :
              /\ RefsOfDict(tasks_data[i].temp_profile_dict)
                   \cap RefsOfProfile(user_profile) = {}
              /\ \A j \in 1..Len(tasks_data) :
                   i # j => RefsOfDict(tasks_data[i].temp_profile_dict)
                              \cap RefsOfDict(tasks_data[j].temp_profile_dict) = {}

C10_Witness ==
    /\ HasProfile
    /\ pc = "DONE"
    /\ IsSuccess
    /\ Len(tasks_data) >= 2
    /\ RefsOfProfile(user_profile) # {}
    /\ RefsOfDict(tasks_data[1].temp_profile_dict) # {}
    /\ RefsOfDict(tasks_data[2].temp_profile_dict) # {}

(***************************************************************************)
(* Properties of the profile                                               *)
(***************************************************************************)
classify == check_profile_completeness(heap, user_profile).completeness

\* the reserved "unset" value of an attribute, by its declared type
NumberFields == { "GPA", "budget_max", "budget_min", "rank_max" }

EqualsItsSentinel(f) ==
    IF f \in ListFields
    THEN IsRef(user_profile[f]) /\ heap[user_profile[f][2]] = <<>>
    ELSE IF f \in NumberFields
         THEN user_profile[f] = Num(Sentinel)
         ELSE user_profile[f] = UNKNOWN

\* an unset marker of any type: 0xffff, "UNKNOWN", [] or None
IsUnsetMarker(f) ==
    \/ user_profile[f] \in { Num(Sentinel), UNKNOWN, None }
    \/ IsRef(user_profile[f]) /\ heap[user_profile[f][2]] = <<>>

\* C11 as stated: with "missing" meaning that the attribute equals the
\* sentinel of its type, classify is COMPLETE iff nothing is missing,
\* INCOMPLETE iff an essential attribute is missing, MINIMAL iff no
\* essential and some important attribute is missing.
C11_AsStated ==
    LET ess == \E f \in EssentialSet : EqualsItsSentinel(f)
        imp == \E f \in ImportantSet : EqualsItsSentinel(f)
    IN  /\ classify = "complete" <=> (~ess /\ ~imp)
        /\ classify = "incomplete" <=> ess
        /\ classify = "minimal" <=> (~ess /\ imp)

\* C11 amended: an attribute is missing when its value is any of the unset
\* markers (the reserved number, the reserved token, the empty list or
\* null), whatever the attribute's type; classify is COMPLETE iff no
\* essential and no important attribute is missing, INCOMPLETE iff at least
\* one essential attribute is missing whatever the important ones are, and
\* MINIMAL iff no essential and at least one important attribute is missing.
C11_ClassifyByUnsetMarkers ==
    LET ess == \E f \in EssentialSet : IsUnsetMarker(f)
        imp == \E f \in ImportantSet : IsUnsetMarker(f)
    IN  /\ classify \in { "complete", "incomplete", "minimal" }
        /\ classify = "complete" <=> (~ess /\ ~imp)
        /\ classify = "incomplete" <=> ess
        /\ classify = "minimal" <=> (~ess /\ imp)

\* an update wrote null into an essential attribute of a profile that had
\* every attribute set: INCOMPLETE, though no attribute equals its sentinel
C11_Witness ==
    /\ n_updates > 0
    /\ user_profile["degree"] = None
    /\ \A f \in (EssentialSet \cup ImportantSet) \ { "degree" } : ~IsUnsetMarker(f)
    /\ classify = "incomplete"

NoDuplicates(q) == \A i, j \in 1..Len(q) : q[i] = q[j] => i = j

IsPrefix(q, r) == Len(q) <= Len(r) /\ \A i \in 1..Len(q) : q[i] = r[i]

\* the list a profile holds in attribute f
ListOf(h, p, f) == h[p[f][2]]

\* C13: after any sequence of update calls no list-valued attribute holds
\* the same element twice; an update only appends to such a list, so that
\* its elements stay in first-seen order; and an update whose list value
\* for the attribute holds only elements already present leaves the length
\* of the list unchanged and does not report the attribute.
C13_ListsWithoutDuplicates ==
    \A f \in ListFields :
        /\ IsRef(user_profile[f]) => NoDuplicates(ListOf(heap, user_profile, f))
        /\ (n_updates > 0 /\ IsRef(user_profile[f]) /\ IsRef(profile_before.profile[f])) =>
             IsPrefix(ListOf(profile_before.heap, profile_before.profile, f),
                      ListOf(heap, user_profile, f))
        /\ (n_updates > 0 /\ ~raised /\ f \in DOMAIN patch.val
              /\ IsRef(patch.val[f]) /\ IsRef(profile_before.profile[f])
              /\ \A i \in 1..Len(heap[patch.val[f][2]]) :
                    InSeq(heap[patch.val[f][2]][i],
                          ListOf(profile_before.heap, profile_before.profile, f))) =>
             /\ Len(ListOf(heap, user_profile, f))
                  = Len(ListOf(profile_before.heap, profile_before.profile, f))
             /\ ~InSeq(f, updated_fields)

\* C14: a key of the payload that is not the name of a declared attribute
\* leaves the object as it was - no attribute of that name is set on it -
\* and is not among the changed names returned.
C14_UnknownKeysIgnored ==
    n_updates > 0 =>
        /\ DOMAIN user_profile = Fields
        /\ \A k \in DOMAIN patch.val \ Fields : ~InSeq(k, updated_fields)

\* C15: upgradeProfile never raises, whatever payload it is handed: it
\* returns a list of changed names.
C15_UpdateNeverRaises == ~raised

(***************************************************************************)
(* Properties of the two matching tools                                    *)
(***************************************************************************)
\* a value that is an "unset" marker: the reserved number, the reserved
\* string or the empty list
IsSentinelValue(v) == v = Num(Sentinel) \/ v = UNKNOWN \/ v = Lit(<<>>)

\* the attributes a request carries: the query itself, or user_info inside
\* the enrichment body
AttributesOf(request) ==
    IF request.endpoint = "case_match" THEN request.body.user_info ELSE request.body

SentinelFree(attrs) == \A k \in DOMAIN attrs : ~IsSentinelValue(attrs[k])

\* C16: no request body of the exact match (primary and enrichment query)
\* and no request body of the speculative match carries an attribute whose
\* value is an unset sentinel.
C16_NoSentinelInRequests ==
    /\ \A i \in 1..Len(exact_requests) : SentinelFree(AttributesOf(exact_requests[i]))
    /\ \A i \in 1..Len(tasks_data) : calls[i] > 0 => SentinelFree(tasks_data[i].api_data)

\* C17: the exact match issues external calls only for a COMPLETE profile;
\* for a MINIMAL or INCOMPLETE one it returns the error ProfileIncomplete
\* and no request is sent.
C17_ExactOnlyWhenComplete ==
    (tool = "certain" /\ HasProfile /\ classify # "complete")
      => /\ exact_requests = <<>>
         /\ exact_pc = "DONE"
              => /\ exact_response.status = "error"
                 /\ exact_response.message.kind = "ProfileIncomplete"

\* a query that was sent and raised: a rejected status or no answer at all
Failed(endpoint) ==
    /\ \E i \in 1..Len(exact_requests) : exact_requests[i].endpoint = endpoint
    /\ exact_svc[endpoint] \in { "http_error", "exception" }

ExactDone(status) == exact_pc = "DONE" /\ exact_response.status = status

\* C18: in the exact match each of the two queries is sent at most once; the
\* enrichment query is sent second, only when the primary query has
\* returned without failing, and carries the primary result; when a query that
\* was sent fails, the run ends in an error, and a run that ends in success
\* has had both queries answered.
C18_EnrichmentAfterPrimary ==
    /\ \A i, j \in 1..Len(exact_requests) :
         exact_requests[i].endpoint = exact_requests[j].endpoint => i = j
    /\ exact_pc = "PRIMARY_SENT" => Len(exact_requests) = 1
    /\ \A i \in 1..Len(exact_requests) :
         exact_requests[i].endpoint = "case_match"
           => /\ i = 2
              /\ exact_requests[1].endpoint = "supplement_match"
              /\ ~Failed("supplement_match")
              /\ exact_requests[i].body.match_results
                   = ResultOf("supplement_match", exact_svc["supplement_match"])
    /\ Failed("supplement_match") => Len(exact_requests) = 1
    /\ (exact_pc = "DONE" /\ (Failed("supplement_match") \/ Failed("case_match")))
         => exact_response.status = "error"
    /\ ExactDone("success")
         => /\ Len(exact_requests) = 2
            /\ exact_svc["supplement_match"] = "ok"
            /\ exact_svc["case_match"] = "ok"
            /\ exact_response.data.supplement_matches = exact_requests[2].body.match_results

C18_Witness ==
    /\ ExactDone("error")
    /\ Len(exact_requests) = 2
    /\ Failed("case_match")

\* C19: the speculative match issues external calls only for a MINIMAL
\* profile with 1 or 2 missing important attributes; with an essential
\* attribute missing (INCOMPLETE) it issues no call, however many
\* attributes are missing.
C19_NoCallsWhenEssentialMissing ==
    /\ (FannedOut \/ CallsIssued > 0)
         => /\ classify = "minimal"
            /\ Len(MissingImportant) \in 1..2
    /\ (HasProfile /\ MissingEssential # <<>>)
         => /\ ~FannedOut
            /\ CallsIssued = 0

\* the errors found in the input or the session state alone
LocalErrors == { "ProfileMissing", "ProfileAlreadyComplete", "NoGuessableFields",
                 "EmptyQuery" }

IsExactError(kind) == ExactDone("error") /\ exact_response.message.kind = kind

\* no call of the speculative run, no request of the exact run
NothingSent == CallsIssued = 0 /\ ~FannedOut /\ exact_requests = <<>>

AllMissing == MissingEssential \o MissingImportant

\* C20: ProfileMissing, ProfileAlreadyComplete (speculative match on a
\* COMPLETE profile), NoGuessableFields (no missing attribute has a candidate
\* list) and EmptyQuery (the serialized body is empty) are returned as
\* errors with no external call of the run issued before them.
C20_LocalErrorsBeforeAnyCall ==
    /\ \A kind \in LocalErrors : (IsError(kind) \/ IsExactError(kind)) => NothingSent
    /\ (tool = "guessed" /\ pc # "PENDING")
         => /\ ~HasProfile => pc = "DONE" /\ IsError("ProfileMissing")
            /\ (HasProfile /\ classify = "complete")
                 => pc = "DONE" /\ IsError("ProfileAlreadyComplete")
            /\ ( /\ HasProfile
                 /\ classify # "complete"
                 /\ Len(AllMissing) <= GuessLimit
                 /\ \A i \in 1..Len(AllMissing) : AllMissing[i] \notin GuessKeys )
                 => pc = "DONE" /\ IsError("NoGuessableFields")
    /\ (tool = "certain" /\ exact_pc # "PENDING")
         => /\ ~HasProfile => IsExactError("ProfileMissing")
            /\ ( /\ HasProfile
                 /\ MissingEssential = <<>>
                 /\ DOMAIN Certain_convert_profile_to_api_format(heap, user_profile) = {} )
                 => IsExactError("EmptyQuery")

C20_Witness == IsExactError("EmptyQuery") /\ HasProfile /\ NothingSent

\* an envelope { status, message, data } with status SUCCESS or ERROR
IsEnvelope(r) ==
    /\ r.status \in { "success", "error" }
    /\ "message" \in DOMAIN r
    /\ r.status = "success" => "data" \in DOMAIN r

\* C21: whatever the external calls do (transport error, other status,
\* timeout, invalid JSON, a body without the expected fields), a run of the
\* exact or of the speculative match that has ended has returned an envelope
\* with status SUCCESS or ERROR, and a run whose calls failed or answered
\* with an unusable body has returned ERROR: no exception reaches the caller.
C21_AlwaysAnEnvelope ==
    /\ pc = "DONE" => IsEnvelope(response)
    /\ pc # "DONE" => response = NoResponse
    /\ exact_pc = "DONE" => IsEnvelope(exact_response)
    /\ exact_pc # "DONE" => exact_response = NoResponse
    /\ (pc = "DONE" /\ FannedOut /\ \E i \in 1..Len(svc) : svc[i] = "ok_list")
         => response.status = "error"
    /\ (pc = "DONE" /\ FannedOut /\ \A i \in 1..Len(svc) : svc[i] \notin { "ok", "ok_list" })
         => response.status = "error"
    /\ (exact_pc = "DONE" /\ exact_requests # <<>>
          /\ \E q \in DOMAIN exact_svc :
               /\ \E i \in 1..Len(exact_requests) : exact_requests[i].endpoint = q
               /\ exact_svc[q] # "ok")
         => exact_response.status = "error"

C21_Witness ==
    /\ pc = "DONE"
    /\ FannedOut
    /\ svc[1] = "ok_list"
    /\ svc[2] = "ok"
    /\ IsError("UnexpectedError")

(***************************************************************************)
(* The life of a speculative run                                           *)
(***************************************************************************)
\* where a run is: the collecting loop over (line 244) with or without a
\* result is PARTIAL_SUCCESS or ALL_FAILED
Phase ==
    CASE pc = "PENDING" -> "PENDING"
      [] pc = "DONE" -> "DONE"
      [] pc = "FANNED_OUT" /\ cursor < Len(fut) -> "FANNED_OUT"
      [] OTHER -> IF all_results # <<>> THEN "PARTIAL_SUCCESS" ELSE "ALL_FAILED"

PhaseRank(ph) ==
    CASE ph = "PENDING" -> 0
      [] ph = "FANNED_OUT" -> 1
      [] ph \in { "PARTIAL_SUCCESS", "ALL_FAILED" } -> 2
      [] OTHER -> 3

\* a step of one run goes forward, to the next phase at most; a run that
\* fans out begins with empty results and counters, and ends from
\* PARTIAL_SUCCESS or ALL_FAILED; a step that starts another run goes from
\* DONE to PENDING
LifecycleStep ==
    IF earlier_runs' # earlier_runs
    THEN Phase = "DONE" /\ Phase' = "PENDING"
    ELSE /\ PhaseRank(Phase') >= PhaseRank(Phase)
         /\ (Phase = "PENDING" /\ Phase' # "PENDING")
              => \/ Phase' = "DONE" /\ response'.status = "error"
                 \/ /\ Phase' = "FANNED_OUT"
                    /\ all_results' = <<>>
                    /\ failed_calls' = 0
                    /\ cursor' = 0
                    /\ timeouts' = {}
         /\ Phase = "FANNED_OUT" => Phase' # "DONE"
         /\ (Phase = "PARTIAL_SUCCESS" /\ Phase' = "DONE")
              => response'.status \in { "success", "error" }
         /\ (Phase = "ALL_FAILED" /\ Phase' = "DONE") => response'.status = "error"
         /\ Phase = "PARTIAL_SUCCESS" => Phase' # "ALL_FAILED"
         /\ Phase = "ALL_FAILED" => Phase' # "PARTIAL_SUCCESS"

\* what a run holds depends on its own calls alone
OwnResultsOnly ==
    pc = "FANNED_OUT" =>
        /\ all_results = ExpectedResults(cursor)
        /\ failed_calls = cursor - Len(all_results)
        /\ timeouts \subseteq 1..cursor
        /\ \A i \in 1..Len(calls) : calls[i] <= 1

\* C22: a speculative run that passes validation goes PENDING, FANNED_OUT,
\* PARTIAL_SUCCESS or ALL_FAILED, DONE in this order and never backwards; as
\* every call returns or times out, a run that fanned out reaches DONE; and a
\* later run on the same tool instance starts with no result and no counter
\* of an earlier run.
C22_RunLifecycle ==
    /\ [][LifecycleStep]_vars
    /\ [](OwnResultsOnly)
    /\ ((pc = "FANNED_OUT") ~> (pc = "DONE"))

\* a second run all of whose calls failed, after a run that returned SUCCESS
C22_Witness ==
    /\ Len(earlier_runs) = 1
    /\ earlier_runs[1] = "success"
    /\ pc = "DONE"
    /\ IsError("AllCombinationsFailed")

(***************************************************************************)
(* Properties of the session store                                         *)
(***************************************************************************)
Served == { i \in 1..Len(turns) : turns[i].ctx # "none" }

SamePair(i, j) ==
    turns[i].user_id = turns[j].user_id /\ turns[i].session_id = turns[j].session_id

\* C23: two requests get the same context exactly when they carry the same
\* (user_id, session_id) pair: a later request sees the profile an earlier
\* one built when the pairs are the same, and never when they differ.
C23_OneContextPerPair ==
    \A i, j \in Served :
        /\ turns[i].ctx = turns[j].ctx <=> SamePair(i, j)
        /\ i < j => (i \in turns[j].seen <=> SamePair(i, j))

(***************************************************************************)
(* Properties of a turn of the agent                                       *)
(***************************************************************************)
\* the turn's matching step has been gone through
TurnDone == turn_pc = "idle" /\ match_response # "none"

ClassNow == check_profile_completeness(heap, user_profile).completeness

\* C24: the matching step runs only after the turn's profile update has
\* returned and dispatches on the class of the updated profile: the exact
\* executor iff COMPLETE, the speculative executor iff MINIMAL, no executor
\* when INCOMPLETE; after an update that returned ERROR it is not run.
C24_DispatchByClass ==
    /\ turn_pc = "updated" => match_response = "none" /\ tool = "none"
    /\ (TurnDone /\ upd_response = "error") => match_response = "not_run" /\ tool = "none"
    /\ (TurnDone /\ upd_response # "error") =>
         /\ match_response # "not_run"
         /\ tool = "certain" <=> ClassNow = "complete"
         /\ tool = "guessed" <=> ClassNow = "minimal"
         /\ ClassNow = "incomplete" => tool = "none"

\* the instance attributes of a profile, a list by its contents
AttrValues(h, p) == [ f \in DOMAIN p |-> Body(h, p[f]) ]

\* the update of this turn left every attribute of the profile as it was
ProfileUntouched ==
    AttrValues(heap, user_profile) = AttrValues(profile_before.heap, profile_before.profile)

\* the update of this turn met a failure: no input, a failed extraction,
\* unparsable JSON or an exception while the payload was applied
UpdateFailed ==
    \/ turns[Len(turns)].extraction \in { "empty_input", "failed", "bad_json" }
    \/ turns[Len(turns)].extraction = "json" /\ raised

\* C26: the profile-update tool returns NO_CHANGE only when the call left
\* every attribute of the profile as it was, returns SUCCESS only when at
\* least one attribute changed, and never reports a failure as NO_CHANGE.
C26_NoChangeMeansUntouched ==
    turn_pc = "updated" =>
        /\ upd_response = "no_change" => ProfileUntouched /\ ~UpdateFailed
        /\ upd_response = "success" => ~ProfileUntouched

C26_Witness ==
    /\ turn_pc = "updated"
    /\ upd_response = "no_change"
    /\ turns[Len(turns)].extraction = "json"
    /\ Len(turns) = 2
    /\ ProfileUntouched
    /\ AttrValues(heap, user_profile)["region"] = Lit(<<"EU", "US">>)

\* C28: when the profile-update tool returns ERROR the profile equals its
\* value before the call: no key of the patch has been applied.
C28_ErrorLeavesProfile ==
    (turn_pc = "updated" /\ upd_response = "error") => ProfileUntouched

(***************************************************************************)
(* Properties of the queries of a speculative run                          *)
(***************************************************************************)
\* the name under which the query carries a guessed attribute
ApiNameOf(key) == IF key = "GPA" THEN "gpa" ELSE key

\* the query the base profile itself serializes to
BaseQuery == _convert_profile_to_api_format(heap, user_profile)

GuessedApiNames(task) == { ApiNameOf(task.guess.keys[i]) : i \in 1..Len(task.guess.keys) }

\* C25: the query of a guess combination carries the combination's candidate
\* value for each guessed attribute and the base profile's value for every
\* other serialized attribute.
C25_QueryIsBasePlusGuess ==
    (tool = "guessed" /\ HasProfile) =>
        \A t \in 1..Len(tasks_data) :
            LET task == tasks_data[t]
                q == task.api_data
            IN  /\ \A i \in 1..Len(task.guess.keys) :
                      /\ ApiNameOf(task.guess.keys[i]) \in DOMAIN q
                      /\ q[ApiNameOf(task.guess.keys[i])] = task.guess.val[task.guess.keys[i]]
                /\ DOMAIN q \ GuessedApiNames(task) = DOMAIN BaseQuery \ GuessedApiNames(task)
                /\ \A k \in DOMAIN q \ GuessedApiNames(task) : q[k] = BaseQuery[k]

(***************************************************************************)
(* Properties of the summary of the exact match                            *)
(***************************************************************************)
\* C27: in a SUCCESS of the exact match the message's counts are the number
\* of programs the primary response reports and the number of cases the
\* enrichment response reports (summary.total_programs, summary.total_cases):
\* the count of programs is not 0 when the primary response reports a program.
C27_CountsFromSummaries ==
    (tool = "certain" /\ exact_pc = "DONE" /\ exact_response.status = "success") =>
        /\ exact_response.message.supplement_count =
             exact_response.data.supplement_matches.summary.total_programs
        /\ exact_response.message.case_count =
             exact_response.data.case_matches.summary.total_cases

(***************************************************************************)
(* Properties of the counts of a speculative run                           *)
(***************************************************************************)
\* the calls whose answer is among the results of the response
Recorded == { response.data.guessed_results[k].results.answer_to :
                k \in 1..Len(response.data.guessed_results) }

\* C29: in a SUCCESS of a speculative run the combinations recorded in
\* guessed_results are those whose call returned HTTP 200 with a non-empty
\* JSON body, each once; successful_combinations is their number and every
\* other combination is counted in failed_combinations, so that
\* successful_combinations + failed_combinations = total_combinations.
C29_CountsOfCombinations ==
    (tool = "guessed" /\ pc = "DONE" /\ FannedOut /\ IsSuccess) =>
        LET d == response.data
        IN  /\ Recorded = Succeeded
            /\ Len(d.guessed_results) = Cardinality(Succeeded)
            /\ d.successful_combinations = Len(d.guessed_results)
            /\ d.total_combinations = Len(guess_combinations)
            /\ d.failed_combinations = Len(guess_combinations) - Cardinality(Succeeded)
            /\ d.successful_combinations + d.failed_combinations = d.total_combinations

C29_Witness ==
    /\ pc = "DONE"
    /\ IsSuccess
    /\ Len(svc) >= 3
    /\ svc[1] = "empty"
    /\ svc[2] = "ok"
    /\ response.data.failed_combinations = 1
    /\ response.data.successful_combinations = Len(svc) - 1

(***************************************************************************)
(* Properties of the completeness across updates                           *)
(***************************************************************************)
ClassRank(c) == CASE c = "incomplete" -> 0 [] c = "minimal" -> 1 [] OTHER -> 2

\* the essential and important attributes classify() reports as present
PresentIn(h, p) ==
    { f \in EssentialSet \cup ImportantSet : ~IsMissing(h, p[f]) }

\* C30: an update call never makes classify() report as missing an
\* essential or important attribute it reported as present before the call,
\* so the completeness state never moves back (COMPLETE to MINIMAL or
\* INCOMPLETE, MINIMAL to INCOMPLETE).
C30_CompletenessNeverRegresses ==
    n_updates > 0 =>
        /\ PresentIn(profile_before.heap, profile_before.profile)
             \subseteq PresentIn(heap, user_profile)
        /\ ClassRank(check_profile_completeness(profile_before.heap,
                                                profile_before.profile).completeness)
             <= ClassRank(check_profile_completeness(heap, user_profile).completeness)

====
